---- MODULE Spec2Model ----
(***************************************************************************)
(* nihstro: the BitField / BitFlag views of bit_field.h and the binary     *)
(* layout records of shader_binary.h.                                      *)
(*                                                                         *)
(* A value of a C++ integer type of w bits is modelled by its two's-       *)
(* complement bit pattern: the set of the positions (0 = least             *)
(* significant) of its 1 bits, a subset of 0 .. w-1.  Bitwise operators    *)
(* are set operations, shifts move positions, conversions truncate or      *)
(* extend.  Arithmetic on patterns follows the C++ rules of the            *)
(* expressions in the source, the integral promotion of operands narrower  *)
(* than int included.  A left shift of a signed operand wraps and a right  *)
(* shift of a negative one is arithmetic: what C++20 defines and what the  *)
(* builds of earlier standards produce.  The word the OutputRegisterInfo   *)
(* constructor finds is uninitialized: any content.                        *)
(***************************************************************************)
EXTENDS Integers, Sequences, FiniteSets, TLC

VARIABLES
    \* a union { StorageType raw; BitField<position,bits,T> view;
    \*           BitField<other[1],other[2],T> second view }
    T, position, bits, other, storage, assigned, op,
    \* union OutputRegisterInfo: the 64-bit word all five views alias, the
    \* view last assigned and the value given
    hex, outOp, outArg,
    \* UniformInfo::Basic: symbol_offset and the storage of regs.reg_start and
    \* of regs.reg_end; the register number last classified, where it came
    \* from, and the results of GetType and GetIndex
    symbol_offset, reg_start, reg_end, reg, regSrc, regType, regIndex,
    \* a header record overlaid on a buffer at byte `base`: the record, the
    \* number of members placed and the byte after the last one placed
    rec, base, idx, cursor

bfVars == <<T, position, bits, other, storage, assigned, op>>

outVars == <<hex, outOp, outArg>>

uniVars == <<symbol_offset, reg_start, reg_end, reg, regSrc, regType, regIndex>>

layVars == <<rec, base, idx, cursor>>

vars == <<bfVars, outVars, uniVars, layVars>>

-----------------------------------------------------------------------------
(* Bit patterns and the C++ operators on them *)

\* the bit positions of a w-bit integer
Bits(w) == 0 .. (w - 1)

\* the width of int, the type operands narrower than int are promoted to
IntBits == 32

\* x << n in a type of `size` bits (bits shifted out are lost)
ShiftLeft(x, n, size) == {i + n : i \in x} \cap Bits(size)

\* x >> n in a type of `size` bits: arithmetic when the type is signed
ShiftRight(x, n, size, signed) ==
    {i - n : i \in {j \in x : j >= n}}
        \cup (IF signed /\ (size - 1) \in x THEN (size - n) .. (size - 1) ELSE {})

\* ~x in a type of `size` bits
Not(x, size) == Bits(size) \ x

\* conversion of a value of a type of fromSize bits to a type of toSize bits
Convert(x, fromSize, fromSigned, toSize) ==
    IF toSize <= fromSize
    THEN x \cap Bits(toSize)
    ELSE x \cup (IF fromSigned /\ (fromSize - 1) \in x
                 THEN fromSize .. (toSize - 1) ELSE {})

\* the type an operand of `size` bits has after integral promotion
PromotedBits(size) == IF size < IntBits THEN IntBits ELSE size

PromotedSigned(size, signed) == IF size < IntBits THEN TRUE ELSE signed

Promote(x, size, signed) == Convert(x, size, signed, PromotedBits(size))

-----------------------------------------------------------------------------
(* BitField<position, bits, T>                                             *)
(* A type t is [size, signed, enum]: 8*sizeof(T), the signedness of        *)
(* StorageType (T itself, or the underlying type of an enum T), and        *)
(* whether T is an enumeration.                                            *)

Types == [size : {8, 16, 32, 64}, signed : BOOLEAN, enum : BOOLEAN]

\* std::numeric_limits<T>::is_signed: the primary template (false) for an enum
IsSigned(t) == (~t.enum) /\ t.signed

\* the static_asserts of BitField
StaticChecks(t, p, b) ==
    /\ b + p <= t.size
    /\ p < t.size
    /\ b <= t.size
    /\ b > 0

\* ((~(StorageTypeU)0) >> (8 * sizeof(T) - bits)) << position, returned as
\* StorageType.  (StorageTypeU)0 is promoted before ~ is applied: for a T
\* narrower than int the shifts are done on the int -1.
GetMask(t, p, b) ==
    LET pw == PromotedBits(t.size)
        ps == PromotedSigned(t.size, FALSE)
        ones == Not(Promote({}, t.size, FALSE), pw)
    IN  Convert(ShiftLeft(ShiftRight(ones, t.size - b, pw, ps), p, pw),
                pw, ps, t.size)

\* Assign without the "& GetMask()" on the shifted value: a value that does not
\* fit the field spills into the bits above it
Assign_Unmasked(t, p, b, st, value) ==
    LET pw == PromotedBits(t.size)
        ps == PromotedSigned(t.size, t.signed)
        mask == Promote(GetMask(t, p, b), t.size, t.signed)
        kept == Promote(st, t.size, t.signed) \cap Not(mask, pw)
        put == ShiftLeft(Promote(value, t.size, t.signed), p, pw)
    IN  Convert(kept \cup put, pw, ps, t.size)

\* storage = (storage & ~GetMask()) | ((((StorageType)value) << position) & GetMask())
Assign(t, p, b, st, value) ==
    LET pw == PromotedBits(t.size)
        ps == PromotedSigned(t.size, t.signed)
        mask == Promote(GetMask(t, p, b), t.size, t.signed)
        kept == Promote(st, t.size, t.signed) \cap Not(mask, pw)
        put == ShiftLeft(Promote(value, t.size, t.signed), p, pw) \cap mask
    IN  Convert(kept \cup put, pw, ps, t.size)

\* Value(): the shift pair when numeric_limits<T>::is_signed, else mask and shift
Value(t, p, b, st) ==
    LET pw == PromotedBits(t.size)
        ps == PromotedSigned(t.size, t.signed)
        masked == Promote(st, t.size, t.signed)
                      \cap Promote(GetMask(t, p, b), t.size, t.signed)
        shift == t.size - b
    IN  IF IsSigned(t)
        THEN Convert(ShiftRight(ShiftLeft(masked, shift - p, pw), shift, pw, ps),
                     pw, ps, t.size)
        ELSE Convert(ShiftRight(masked, p, pw, ps), pw, ps, t.size)

-----------------------------------------------------------------------------
(* Inputs of the generic BitField specification *)

\* field widths 1 .. MaxBits are enumerated with all their values
MaxBits == 2

\* no value assigned through the view since the word was last written whole
None == {-1}

NoView == <<>>

\* the bits [p, p+b) of a word
Field(p, b) == p .. (p + b - 1)

\* contents of the storage word written through the raw member of the union
RawSamples(size) == {{}, Bits(size), {i \in Bits(size) : i % 2 = 0}}

\* (position, bits) of the view: narrow and full-width fields at the bottom,
\* inside and at the top of the word
FieldSamples(t) ==
    {f \in ({0, 1, t.size - 1} \cup {t.size - b - 1 : b \in 1 .. MaxBits}
                \cup {t.size - b : b \in 1 .. MaxBits})
            \X ((1 .. MaxBits) \cup {t.size}) :
        f[1] >= 0 /\ StaticChecks(t, f[1], f[2])}

\* a second one-bit view over bits disjoint from the first view's
OtherSamples(t, p, b) ==
    LET s == {f \in {p - 1, p + b, 0, t.size - 1} \X {1} :
                 /\ f[1] >= 0
                 /\ StaticChecks(t, f[1], f[2])
                 /\ Field(f[1], f[2]) \cap Field(p, b) = {}}
    IN  IF s = {} THEN {NoView} ELSE s

\* values of T handed to Assign: every value of the low bits, zero-extended,
\* sign-extended, and with bits set that do not fit the field
ValueSamples(t, b) ==
    LET k == IF b < MaxBits THEN b ELSE MaxBits
        highs == {{}, k .. (t.size - 1), (b - 1) .. (t.size - 1), k .. (b - 1)}
    IN  {l \cup h : l \in SUBSET Bits(k), h \in highs}

-----------------------------------------------------------------------------
(* The generic union: the raw word and two views *)

\* the parts of the state a specification does not use stay as they are here
IdleBitField ==
    /\ T = [size |-> 8, signed |-> FALSE, enum |-> FALSE]
    /\ position = 0
    /\ bits = 1
    /\ other = NoView
    /\ storage = {}
    /\ assigned = None
    /\ op = "idle"

IdleOutput == hex = {} /\ outOp = "idle" /\ outArg = {}

IdleUniform ==
    /\ symbol_offset = {}
    /\ reg_start = {}
    /\ reg_end = {}
    /\ reg = 0
    /\ regSrc = "idle"
    /\ regType = "Input"
    /\ regIndex = 0

IdleLayout == rec = "idle" /\ base = 0 /\ idx = 0 /\ cursor = 0

InitBitField ==
    /\ IdleOutput /\ IdleUniform /\ IdleLayout
    /\ T \in Types
    /\ \E f \in FieldSamples(T) :
          /\ position = f[1]
          /\ bits = f[2]
          /\ other \in OtherSamples(T, f[1], f[2])
    /\ storage \in RawSamples(T.size)
    /\ assigned = None
    /\ op = "init"

\* view.Assign(v), view = v
BitField_Assign ==
    \E v \in ValueSamples(T, bits) :
        /\ storage' = Assign(T, position, bits, storage, v)
        /\ assigned' = v
        /\ op' = "Assign"
        /\ UNCHANGED <<T, position, bits, other, outVars, uniVars, layVars>>

\* Assign on the second view of the union
BitField_AssignOther ==
    /\ other # NoView
    /\ \E v \in ValueSamples(T, other[2]) :
          /\ storage' = Assign(T, other[1], other[2], storage, v)
          /\ op' = "AssignOther"
          /\ UNCHANGED <<T, position, bits, other, assigned, outVars, uniVars, layVars>>

\* a write of the whole word through the raw member
WriteRaw ==
    \E w \in RawSamples(T.size) :
        /\ storage' = w
        /\ assigned' = None
        /\ op' = "WriteRaw"
        /\ UNCHANGED <<T, position, bits, other, outVars, uniVars, layVars>>

\* view = sameTypeView: the deletion of operator=(const BitField&) is commented
\* out, so the implicit copy assignment copies the source's whole storage
BitField_CopyAssign ==
    \E src \in RawSamples(T.size) :
        /\ storage' = src
        /\ assigned' = None
        /\ op' = "CopyAssign"
        /\ UNCHANGED <<T, position, bits, other, outVars, uniVars, layVars>>

NextBitField ==
    \/ BitField_Assign
    \/ BitField_AssignOther
    \/ WriteRaw
    \/ BitField_CopyAssign

SpecBitField == InitBitField /\ [][NextBitField]_vars

-----------------------------------------------------------------------------
(* Claims about the generic BitField *)

\* v is representable in b bits of a type t: 0 .. 2^b-1 when the storage type
\* is unsigned, -2^(b-1) .. 2^(b-1)-1 when it is signed
Representable(t, b, v) ==
    IF t.signed
    THEN \/ (b - 1) .. (t.size - 1) \subseteq v
         \/ v \cap ((b - 1) .. (t.size - 1)) = {}
    ELSE v \subseteq Bits(b)

\* the two's-complement reading of the field bits [p, p+b) of st, as a value
\* of `size` bits
TwosComplement(st, p, b, size) ==
    LET f == {i - p : i \in st \cap Field(p, b)}
    IN  f \cup (IF (b - 1) \in f THEN b .. (size - 1) ELSE {})

\* the reading of the field bits as an unsigned number
ZeroExtended(st, p, b) == {i - p : i \in st \cap Field(p, b)}

\* C1: for every valid (position, bits, T), every prior content of the word
\* and every value v representable in `bits` bits, Assign(v) followed by
\* Value() returns v.
C1_RoundTrip ==
    (op = "Assign" /\ Representable(T, bits, assigned))
        => Value(T, position, bits, storage) = assigned

\* C2: Assign leaves every bit outside [position, position+bits) unchanged,
\* for every value passed in; assigning one of two views over disjoint bits
\* never changes the other's Value(), and a view's Value() is determined by
\* the last value assigned to it alone.
C2_AssignFrame ==
    [][/\ op' = "Assign"
            => storage' \ Field(position, bits) = storage \ Field(position, bits)
       /\ op' = "AssignOther"
            => /\ storage' \ Field(other[1], other[2])
                    = storage \ Field(other[1], other[2])
               /\ Value(T, position, bits, storage')
                    = Value(T, position, bits, storage)
       /\ assigned' # None
            => Value(T, position, bits, storage')
                 = Value(T, position, bits,
                         Assign(T, position, bits, {}, assigned'))]_vars

\* C3: for a signed integer T of any width, Value() is the two's-complement
\* reading of the field bits, for every content of the storage word; the
\* most negative value -2^(bits-1), once assigned, is read back.
C3_SignExtension ==
    IsSigned(T)
        => /\ Value(T, position, bits, storage)
                = TwosComplement(storage, position, bits, T.size)
           /\ (op = "Assign" /\ assigned = (bits - 1) .. (T.size - 1))
                => Value(T, position, bits, storage) = assigned

\* C9: no step assigns one field view from another and thereby overwrites
\* bits outside the target field's [position, position+bits).
C9_NoViewCopy ==
    [][op' = "CopyAssign"
          => storage' \ Field(position, bits) = storage \ Field(position, bits)]_vars

-----------------------------------------------------------------------------
(* union OutputRegisterInfo *)

\* the pattern of a number below 2^31, and the number of a pattern below 2^31
FromNat(n) == {i \in 0 .. 30 : (n \div (2 ^ i)) % 2 = 1}

RECURSIVE ToNat(_)
ToNat(x) ==
    IF x = {} THEN 0
    ELSE LET i == CHOOSE j \in x : TRUE IN (2 ^ i) + ToNat(x \ {i})

\* uint64_t, and enum class Type : uint64_t
U64 == [size |-> 64, signed |-> FALSE, enum |-> FALSE]

OutputType == [size |-> 64, signed |-> FALSE, enum |-> TRUE]

\* the views: BitField<position, bits, T> name
OutputViews ==
    [hex            |-> <<0, 64, U64>>,
     type           |-> <<0, 16, OutputType>>,
     id             |-> <<16, 16, U64>>,
     component_mask |-> <<32, 4, U64>>,
     descriptor     |-> <<32, 32, U64>>]

\* view.Value() on the word w
OutputValue(view, w) ==
    Value(OutputViews[view][3], OutputViews[view][1], OutputViews[view][2], w)

\* view.Assign(v) on the word w
OutputAssign(view, w, v) ==
    Assign(OutputViews[view][3], OutputViews[view][1], OutputViews[view][2], w, v)

\* OutputRegisterInfo(): five Assign calls on the word as it was found
OutputRegisterInfo(garbage) ==
    LET a == OutputAssign("hex", garbage, {})
        b == OutputAssign("type", a, FromNat(0))
        c == OutputAssign("id", b, {})
        d == OutputAssign("component_mask", c, {})
    IN  OutputAssign("descriptor", d, {})

\* GetMask() with the tests of bits 4 and 8 exchanged
OutputRegisterInfo_GetMask_Swapped(w) ==
    LET m == OutputValue("component_mask", w)
        r0 == ""
        r1 == IF m \cap FromNat(1) # {} THEN r0 \o "x" ELSE r0
        r2 == IF m \cap FromNat(2) # {} THEN r1 \o "y" ELSE r1
        r3 == IF m \cap FromNat(8) # {} THEN r2 \o "z" ELSE r2
    IN  IF m \cap FromNat(4) # {} THEN r3 \o "w" ELSE r3

\* GetMask(): the letters of the bits set in component_mask
OutputRegisterInfo_GetMask(w) ==
    LET m == OutputValue("component_mask", w)
        r0 == ""
        r1 == IF m \cap FromNat(1) # {} THEN r0 \o "x" ELSE r0
        r2 == IF m \cap FromNat(2) # {} THEN r1 \o "y" ELSE r1
        r3 == IF m \cap FromNat(4) # {} THEN r2 \o "z" ELSE r2
    IN  IF m \cap FromNat(8) # {} THEN r3 \o "w" ELSE r3

\* the map with VIEW numbered 7, the value after TEXCOORD2, instead of 8
SemanticNames_NoGap ==
    (FromNat(0) :> "out.pos") @@ (FromNat(1) :> "out.quat")
        @@ (FromNat(2) :> "out.col") @@ (FromNat(3) :> "out.tex0")
        @@ (FromNat(4) :> "out.texw") @@ (FromNat(5) :> "out.tex1")
        @@ (FromNat(6) :> "out.tex2") @@ (FromNat(7) :> "out.view")

\* the static map of GetSemanticName, keyed by the values of enum Type
SemanticNames ==
    (FromNat(0) :> "out.pos") @@ (FromNat(1) :> "out.quat")
        @@ (FromNat(2) :> "out.col") @@ (FromNat(3) :> "out.tex0")
        @@ (FromNat(4) :> "out.texw") @@ (FromNat(5) :> "out.tex1")
        @@ (FromNat(6) :> "out.tex2") @@ (FromNat(8) :> "out.view")

\* GetSemanticName(): map.find(type.Value()), "out.unk" when not found
GetSemanticName(w) ==
    LET t == OutputValue("type", w)
    IN  IF t \in DOMAIN SemanticNames THEN SemanticNames[t] ELSE "out.unk"

\* type values 0 .. MaxType are all assigned
MaxType == 8

\* values handed to Assign, per view: values that fit and values that do not
OutputArgs ==
    [hex            |-> {{}, Bits(64)},
     type           |-> {FromNat(n) : n \in 0 .. MaxType}
                            \cup {Bits(16), FromNat(7) \cup {16}, Bits(64)},
     id             |-> {{}, FromNat(1) \cup {16}, Bits(16)},
     component_mask |-> (SUBSET Bits(4)) \cup {Bits(5), Bits(64)},
     descriptor     |-> {{}, FromNat(10), 4 .. 31, Bits(32), Bits(64)}]

InitOutput ==
    /\ IdleBitField /\ IdleUniform /\ IdleLayout
    /\ \E garbage \in RawSamples(64) : hex = OutputRegisterInfo(garbage)
    /\ outOp = "OutputRegisterInfo"
    /\ outArg = {}

\* view.Assign(v) for one of the five views
OutputRegisterInfo_Assign(view) ==
    \E v \in OutputArgs[view] :
        /\ hex' = OutputAssign(view, hex, v)
        /\ outOp' = view
        /\ outArg' = v
        /\ UNCHANGED <<bfVars, uniVars, layVars>>

Assign_hex == OutputRegisterInfo_Assign("hex")

Assign_type == OutputRegisterInfo_Assign("type")

Assign_id == OutputRegisterInfo_Assign("id")

Assign_component_mask == OutputRegisterInfo_Assign("component_mask")

Assign_descriptor == OutputRegisterInfo_Assign("descriptor")

NextOutput ==
    \/ Assign_hex
    \/ Assign_type
    \/ Assign_id
    \/ Assign_component_mask
    \/ Assign_descriptor

SpecOutput == InitOutput /\ [][NextOutput]_vars

-----------------------------------------------------------------------------
(* Claims about OutputRegisterInfo *)

\* the tag the claim gives for the number n of the type field
ExpectedSemanticName(n) ==
    CASE n = 0 -> "out.pos"
      [] n = 1 -> "out.quat"
      [] n = 2 -> "out.col"
      [] n = 3 -> "out.tex0"
      [] n = 4 -> "out.texw"
      [] n = 5 -> "out.tex1"
      [] n = 6 -> "out.tex2"
      [] n = 8 -> "out.view"
      [] OTHER -> "out.unk"

\* the number held by bits [p, p+b) of the word w (b at most 31)
FieldNumber(w, p, b) == ToNat({i - p : i \in w \cap Field(p, b)})

\* C7: GetSemanticName is total over the 16-bit type field: the eight named
\* values 0,1,2,3,4,5,6,8 give their tags, every other value (7, 9..0xFFFF)
\* gives out.unk, and the result depends only on bits [0,16) of the word.
C7_SemanticName ==
    GetSemanticName(hex) = ExpectedSemanticName(FieldNumber(hex, 0, 16))

\* the type field holds the gap value 7 while other fields are set
C7_Witness ==
    /\ FieldNumber(hex, 0, 16) = 7
    /\ hex \ Bits(16) # {}
    /\ GetSemanticName(hex) = "out.unk"

\* the letters the claim gives for the number m of the mask field
ExpectedLetters(m) ==
    (IF (m \div 1) % 2 = 1 THEN "x" ELSE "")
        \o (IF (m \div 2) % 2 = 1 THEN "y" ELSE "")
        \o (IF (m \div 4) % 2 = 1 THEN "z" ELSE "")
        \o (IF (m \div 8) % 2 = 1 THEN "w" ELSE "")

\* C8: GetMask returns exactly the letters of x, y, z, w whose bits 1, 2, 4, 8
\* are set in the 4-bit component_mask, in that order (0b1010 gives "yw",
\* 0b1111 "xyzw", 0 the empty string), and depends only on bits [32,36).
C8_MaskLetters ==
    LET m == FieldNumber(hex, 32, 4)
    IN  /\ OutputRegisterInfo_GetMask(hex) = ExpectedLetters(m)
        /\ m = 10 => OutputRegisterInfo_GetMask(hex) = "yw"
        /\ m = 15 => OutputRegisterInfo_GetMask(hex) = "xyzw"
        /\ m = 0 => OutputRegisterInfo_GetMask(hex) = ""

\* the mask is 0b1010 while the rest of the descriptor and the type are set
C8_Witness ==
    /\ FieldNumber(hex, 32, 4) = 10
    /\ hex \cap (36 .. 63) # {}
    /\ hex \cap Bits(16) # {}
    /\ OutputRegisterInfo_GetMask(hex) = "yw"

\* all five views read one word: hex = type + 2^16 * id + 2^32 * descriptor,
\* the three in disjoint bit ranges, and component_mask = descriptor mod 16
C10_Views ==
    LET ty == OutputValue("type", hex)
        id == OutputValue("id", hex)
        cm == OutputValue("component_mask", hex)
        de == OutputValue("descriptor", hex)
    IN  /\ ty \subseteq Bits(16) /\ id \subseteq Bits(16) /\ de \subseteq Bits(32)
        /\ OutputValue("hex", hex)
             = ty \cup {i + 16 : i \in id} \cup {i + 32 : i \in de}
        /\ cm = de \cap Bits(4)
        /\ outOp = "OutputRegisterInfo" => hex = {}

\* assigning descriptor replaces component_mask by the low 4 bits of the new
\* descriptor; assigning component_mask changes only the low 4 bits of
\* descriptor and leaves its upper 28 bits, type and id unchanged
C10_Step ==
    /\ outOp' = "descriptor"
         => OutputValue("component_mask", hex') = outArg' \cap Bits(4)
    /\ outOp' = "component_mask"
         => /\ OutputValue("component_mask", hex') = outArg' \cap Bits(4)
            /\ OutputValue("descriptor", hex') \ Bits(4)
                 = OutputValue("descriptor", hex) \ Bits(4)
            /\ OutputValue("type", hex') = OutputValue("type", hex)
            /\ OutputValue("id", hex') = OutputValue("id", hex)

\* C10: in every state reached from the constructor (word 0) by Assign calls
\* on hex, type, id, component_mask and descriptor, the five views read the
\* same 64-bit word, and descriptor and component_mask overlap as stated.
C10_OutputAliasing == []C10_Views /\ [][C10_Step]_vars

\* component_mask was assigned a value that does not fit, over a descriptor
\* with upper bits set and a nonzero type and id
C10_Witness ==
    /\ outOp = "component_mask"
    /\ outArg = Bits(5)
    /\ OutputValue("descriptor", hex) \ Bits(5) # {}
    /\ OutputValue("type", hex) # {}
    /\ OutputValue("id", hex) # {}

-----------------------------------------------------------------------------
(* UniformInfo::Basic: GetType and GetIndex *)

\* GetType with the bound of the bool range tested from above only
GetType_NoGap(n) ==
    IF n < 16 THEN "Input"
    ELSE IF n < 112 THEN "FloatUniform"
    ELSE IF n < 116 THEN "IntUniform"
    ELSE IF n < 136 THEN "BoolUniform"
    ELSE "Unknown"

\* static RegisterType GetType(uint32_t reg)
GetType(n) ==
    IF n < 16 THEN "Input"
    ELSE IF n < 112 THEN "FloatUniform"
    ELSE IF n < 116 THEN "IntUniform"
    ELSE IF n >= 120 /\ n < 136 THEN "BoolUniform"
    ELSE "Unknown"

\* static int GetIndex(uint32_t reg)
GetIndex(n) ==
    CASE GetType(n) = "Input" -> n
      [] GetType(n) = "FloatUniform" -> n - 16
      [] GetType(n) = "IntUniform" -> n - 112
      [] GetType(n) = "BoolUniform" -> n - 120
      [] OTHER -> -1

\* register numbers 0 .. MaxReg are all classified
MaxReg == 144

\* the register numbers handed to GetType and GetIndex
RegNumbers == (0 .. MaxReg) \cup {65535, 65536, 2147483647}

InitClassify ==
    /\ IdleBitField /\ IdleOutput /\ IdleLayout
    /\ symbol_offset = {} /\ reg_start = {} /\ reg_end = {}
    /\ reg \in RegNumbers
    /\ regSrc = "argument"
    /\ regType = "Input"
    /\ regIndex = 0

\* GetType(reg) and GetIndex(reg) on the argument
Classify ==
    /\ regSrc = "argument"
    /\ regSrc' = "classified"
    /\ regType' = GetType(reg)
    /\ regIndex' = GetIndex(reg)
    /\ UNCHANGED <<reg, symbol_offset, reg_start, reg_end, bfVars, outVars, layVars>>

NextClassify == Classify

SpecClassify == InitClassify /\ [][NextClassify]_vars

\* the class the claim gives to register number n, and the start of its range
ExpectedClass(n) ==
    CASE 0 <= n /\ n < 16 -> <<"Input", 0>>
      [] 16 <= n /\ n < 112 -> <<"FloatUniform", 16>>
      [] 112 <= n /\ n < 116 -> <<"IntUniform", 112>>
      [] 120 <= n /\ n < 136 -> <<"BoolUniform", 120>>
      [] OTHER -> <<"Unknown", 0>>

\* C4: GetType(n) is Input on [0,0x10), FloatUniform on [0x10,0x70),
\* IntUniform on [0x70,0x74), BoolUniform on [0x78,0x88) and Unknown otherwise;
\* GetIndex(n) is n minus the start of the class's range, and the sentinel -1
\* exactly when the class is Unknown.
C4_Classification ==
    regSrc = "classified"
        => /\ regType = ExpectedClass(reg)[1]
           /\ regType # "Unknown" => regIndex = reg - ExpectedClass(reg)[2]
           /\ regIndex = -1 <=> regType = "Unknown"
           /\ reg = 15 => regType = "Input"
           /\ reg = 111 => regType = "FloatUniform" /\ regIndex = 95
           /\ reg = 119 => regType = "Unknown"
           /\ reg = 135 => regType = "BoolUniform" /\ regIndex = 15
           /\ reg = 136 => regType = "Unknown"

\* register 0x77, in the gap between the int and the bool range, was classified
C4_Witness ==
    /\ regSrc = "classified"
    /\ reg = 119
    /\ regType = "Unknown"
    /\ regIndex = -1

-----------------------------------------------------------------------------
(* UniformInfo::Basic: symbol_offset and struct RegisterFields *)

U32 == [size |-> 32, signed |-> FALSE, enum |-> FALSE]

\* RegisterFields is a struct: reg_start and reg_end are two BitField objects,
\* each with its own 32-bit storage.  The words of Basic in memory order
\* (pack(1)): symbol_offset, reg_start.storage, reg_end.storage
BasicWords == <<symbol_offset, reg_start, reg_end>>

\* regs.reg_start.Value() and regs.reg_end.Value()
RegStartValue == Value(U32, 0, 16, reg_start)

RegEndValue == Value(U32, 16, 16, reg_end)

\* uint32_t values handed to Assign: the ends of the register classes, 0xFFFF,
\* and a value that does not fit 16 bits
RegArgs ==
    {FromNat(n) : n \in {0, 15, 16, 111, 112, 119, 120, 135, 136, 65535}}
        \cup {FromNat(16) \cup {16}}

\* UniformInfo(): the member initializers, then basic.Initialize()
InitUniform ==
    /\ IdleBitField /\ IdleOutput /\ IdleLayout
    /\ symbol_offset = {}
    /\ reg_start = Assign(U32, 0, 16, {}, {})
    /\ reg_end = Assign(U32, 16, 16, {}, {})
    /\ reg = 0
    /\ regSrc = "UniformInfo"
    /\ regType = "Input"
    /\ regIndex = 0

\* Initialize()
Initialize ==
    /\ symbol_offset' = {}
    /\ reg_start' = Assign(U32, 0, 16, reg_start, {})
    /\ reg_end' = Assign(U32, 16, 16, reg_end, {})
    /\ regSrc' = "Initialize"
    /\ UNCHANGED <<reg, regType, regIndex, bfVars, outVars, layVars>>

\* symbol_offset = v
Write_symbol_offset ==
    \E v \in {{}, Bits(32)} :
        /\ symbol_offset' = v
        /\ regSrc' = "symbol_offset"
        /\ UNCHANGED <<reg_start, reg_end, reg, regType, regIndex,
                       bfVars, outVars, layVars>>

\* regs.reg_start.Assign(v)
Assign_reg_start ==
    \E v \in RegArgs :
        /\ reg_start' = Assign(U32, 0, 16, reg_start, v)
        /\ regSrc' = "reg_start"
        /\ UNCHANGED <<symbol_offset, reg_end, reg, regType, regIndex,
                       bfVars, outVars, layVars>>

\* regs.reg_end.Assign(v)
Assign_reg_end ==
    \E v \in RegArgs :
        /\ reg_end' = Assign(U32, 16, 16, reg_end, v)
        /\ regSrc' = "reg_end"
        /\ UNCHANGED <<symbol_offset, reg_start, reg, regType, regIndex,
                       bfVars, outVars, layVars>>

\* GetStartType() and GetStartIndex()
GetStart ==
    /\ reg' = ToNat(RegStartValue)
    /\ regSrc' = "GetStart"
    /\ regType' = GetType(ToNat(RegStartValue))
    /\ regIndex' = GetIndex(ToNat(RegStartValue))
    /\ UNCHANGED <<symbol_offset, reg_start, reg_end, bfVars, outVars, layVars>>

\* GetEndType() and GetEndIndex()
GetEnd ==
    /\ reg' = ToNat(RegEndValue)
    /\ regSrc' = "GetEnd"
    /\ regType' = GetType(ToNat(RegEndValue))
    /\ regIndex' = GetIndex(ToNat(RegEndValue))
    /\ UNCHANGED <<symbol_offset, reg_start, reg_end, bfVars, outVars, layVars>>

NextUniform ==
    \/ Initialize
    \/ Write_symbol_offset
    \/ Assign_reg_start
    \/ Assign_reg_end
    \/ GetStart
    \/ GetEnd

SpecUniform == InitUniform /\ [][NextUniform]_vars

\* C5: reg_start and reg_end are bits [0,16) and [16,32) of one word, the word
\* that directly follows symbol_offset: that word is
\* reg_start.Value() + 2^16 * reg_end.Value(), and the start and the end
\* queries read its low and its high 16 bits.
C5_SharedWord ==
    LET word == BasicWords[2]
    IN  /\ word = RegStartValue \cup {i + 16 : i \in RegEndValue}
        /\ regSrc = "GetStart" => reg = FieldNumber(word, 0, 16)
        /\ regSrc = "GetEnd" => reg = FieldNumber(word, 16, 16)

-----------------------------------------------------------------------------
(* The header records: DVLBHeader, DVLPHeader, DVLEHeader *)

\* #pragma pack(1)
Pack == 1

\* sizeof of the member types
SizeOf == [uint32_t |-> 4, uint16_t |-> 2, uint8_t |-> 1, ShaderType |-> 1]

\* DVLEHeader without the member pad4
HeaderMembers_NoPad4 ==
    [DVLBHeader |-> <<"uint32_t", "uint32_t">>,
     DVLPHeader |-> <<"uint32_t", "uint32_t", "uint32_t", "uint32_t",
                      "uint32_t", "uint32_t", "uint32_t">>,
     DVLEHeader |-> <<"uint32_t", "uint16_t", "ShaderType", "uint8_t",
                      "uint32_t", "uint32_t",
                      "uint32_t",
                      "uint32_t", "uint32_t",
                      "uint32_t", "uint32_t",
                      "uint32_t", "uint32_t",
                      "uint32_t", "uint32_t",
                      "uint32_t", "uint32_t">>]

\* the types of the members of each record, in declared order
HeaderMembers ==
    [DVLBHeader |-> <<"uint32_t", "uint32_t">>,
     DVLPHeader |-> <<"uint32_t", "uint32_t", "uint32_t", "uint32_t",
                      "uint32_t", "uint32_t", "uint32_t">>,
     DVLEHeader |-> <<"uint32_t", "uint16_t", "ShaderType", "uint8_t",
                      "uint32_t", "uint32_t",
                      "uint32_t", "uint32_t",
                      "uint32_t", "uint32_t",
                      "uint32_t", "uint32_t",
                      "uint32_t", "uint32_t",
                      "uint32_t", "uint32_t",
                      "uint32_t", "uint32_t">>]

\* the sizes the static_asserts state: 0x8, 0x1C, 0x40
StaticAssertSize == [DVLBHeader |-> 8, DVLPHeader |-> 28, DVLEHeader |-> 64]

\* the alignment of a member of `size` bytes under pack(Pack)
Alignment(size) == IF size < Pack THEN size ELSE Pack

\* the first offset at or after off that is a multiple of a
AlignUp(off, a) == ((off + a - 1) \div a) * a

\* records are overlaid on a buffer at bytes 0 .. MaxBase
MaxBase == 3

InitLayout ==
    /\ IdleBitField /\ IdleOutput /\ IdleUniform
    /\ rec \in DOMAIN HeaderMembers
    /\ base \in 0 .. MaxBase
    /\ idx = 0
    /\ cursor = base

\* the next declared member is placed at the next offset its alignment allows
PlaceMember ==
    /\ idx < Len(HeaderMembers[rec])
    /\ LET size == SizeOf[HeaderMembers[rec][idx + 1]]
       IN  cursor' = base + AlignUp(cursor - base, Alignment(size)) + size
    /\ idx' = idx + 1
    /\ UNCHANGED <<rec, base, bfVars, outVars, uniVars>>

NextLayout == PlaceMember

SpecLayout == InitLayout /\ [][NextLayout]_vars

\* C6: laid out without padding in declared order, DVLBHeader is 8 bytes,
\* DVLPHeader 28 (0x1C) and DVLEHeader 64 (0x40): the declared member widths
\* of each record add up to the size its static_assert states.
C6_RecordSizes ==
    idx = Len(HeaderMembers[rec])
        => /\ cursor - base = StaticAssertSize[rec]
           /\ rec = "DVLBHeader" => cursor - base = 8
           /\ rec = "DVLPHeader" => cursor - base = 28
           /\ rec = "DVLEHeader" => cursor - base = 64

\* all eighteen members of a DVLEHeader at a nonzero base are placed
C6_Witness ==
    /\ rec = "DVLEHeader"
    /\ base > 0
    /\ idx = 18
    /\ idx = Len(HeaderMembers[rec])
    /\ cursor = base + 64

====
